---- MODULE Spec2Model ----
(***************************************************************************)
(* Swapchain lifecycle and frame-presentation loop of the Vulkan triangle  *)
(* renderer (src/src/main.rs, src/src/swapchain.rs).                       *)
(*                                                                         *)
(* The GraphicsApplication object is modelled field by field.  The calls   *)
(* into the graphics library (surface capabilities, swapchain build,       *)
(* acquire_next_image, then_execute, then_signal_fence_and_flush) are the  *)
(* environment: their results are inputs of the actions.                   *)
(*                                                                         *)
(* Spec      the object under a caller that invokes draw_frame again and   *)
(*           again, which is what the present loop of main_loop is written *)
(*           to do; the surface may be resized between two frames.         *)
(* LoopSpec  main_loop as it is coded, with the window event loop.         *)
(* ExtentSpec choose_swap_extent applied to bounded capabilities.          *)
(***************************************************************************)
EXTENDS Integers, Sequences, FiniteSets, TLC

VARIABLES
    status,               \* "start" | "running" | "panicked" | "exited"
    panic_at,             \* source line of the panic, 0 when none
    capabilities,         \* what surface.capabilities(physical_device) reports now
    swap_chain,           \* GraphicsApplication.swap_chain
    swap_chain_images,    \* GraphicsApplication.swap_chain_images
    render_pass,          \* GraphicsApplication.render_pass
    graphics_pipeline,    \* GraphicsApplication.graphics_pipeline
    framebuffers,         \* GraphicsApplication.framebuffers
    command_buffers,      \* GraphicsApplication.command_buffers
    previous_frame_end,   \* GraphicsApplication.previous_frame_end
    recreate_flag,        \* GraphicsApplication.recreate_swap_chain (the bool field)
    event_loop,           \* GraphicsApplication.event_loop
    pc,                   \* position of main_loop: "draw" | "events" | "in_run"
    frame_no,             \* number of draw_frame calls made so far
    frame,                \* record of what the last draw_frame call did
    built_from,           \* capabilities at the last create_swap_chain call
    last_submission,      \* command buffer index -> frame of its last then_execute
    last_event,           \* last event handed to the event-loop closure
    desired,              \* ExtentSpec: desired resolution passed to choose_swap_extent
    extent_result,        \* ExtentSpec: value returned by choose_swap_extent
    chosen,               \* ChooseSpec: values returned by the other choose_* rules
    queue_families,       \* DeviceSpec: the queue families of each enumerated device
    queues                \* DeviceSpec: the queues returned by create_device

vars == <<status, panic_at, capabilities, swap_chain, swap_chain_images, render_pass,
          graphics_pipeline, framebuffers, command_buffers, previous_frame_end,
          recreate_flag, event_loop, pc, frame_no, frame, built_from, last_submission,
          last_event, desired, extent_result, chosen, queue_families, queues>>

(***************************************************************************)
(* Bounds of the model.                                                    *)
(***************************************************************************)
MaxFrames == 3
MaxImages == 3

(***************************************************************************)
(* Option<T>.                                                              *)
(***************************************************************************)
None == [some |-> FALSE]
Some(x) == [some |-> TRUE, val |-> x]

\* no choose_* rule has been applied yet
NothingChosen == [format |-> None, present_mode |-> None, image_count |-> None]

Min(a, b) == IF a <= b THEN a ELSE b
Max(a, b) == IF a >= b THEN a ELSE b

(***************************************************************************)
(* Formats, colour spaces and present modes.                               *)
(***************************************************************************)
PreferredFormat == <<"B8G8R8A8Unorm", "SrgbNonLinear">>
OtherFormat == <<"R8G8B8A8Unorm", "SrgbNonLinear">>
WrongSpaceFormat == <<"B8G8R8A8Unorm", "ExtendedSrgbLinear">>

DesiredWidth == 1024
DesiredHeight == 768

(***************************************************************************)
(* swapchain.rs                                                            *)
(***************************************************************************)
RECURSIVE find_preferred(_, _)
find_preferred(available_formats, i) ==
    IF i > Len(available_formats) THEN None
    ELSE IF available_formats[i][1] = "B8G8R8A8Unorm"
            /\ available_formats[i][2] = "SrgbNonLinear"
         THEN Some(available_formats[i])
         ELSE find_preferred(available_formats, i + 1)

\* mutant: the colour space is not compared
choose_swap_surface_format_any_space(available_formats) ==
    IF Len(available_formats) = 0 THEN None
    ELSE IF \E i \in 1 .. Len(available_formats) :
                available_formats[i][1] = "B8G8R8A8Unorm"
    THEN Some(available_formats[CHOOSE i \in 1 .. Len(available_formats) :
                  /\ available_formats[i][1] = "B8G8R8A8Unorm"
                  /\ \A j \in 1 .. i - 1 : available_formats[j][1] /= "B8G8R8A8Unorm"])
    ELSE Some(available_formats[1])

\* Option: None stands for the panic of available_formats[0] on an empty slice.
choose_swap_surface_format(available_formats) ==
    LET found == find_preferred(available_formats, 1)
    IN  IF found.some THEN found
        ELSE IF Len(available_formats) = 0 THEN None
        ELSE Some(available_formats[1])

\* mutant: immediate is preferred to mailbox
choose_swap_present_mode_immediate_first(available_present_modes) ==
    IF available_present_modes.immediate THEN "Immediate"
    ELSE IF available_present_modes.mailbox THEN "Mailbox"
    ELSE "Fifo"

choose_swap_present_mode(available_present_modes) ==
    IF available_present_modes.mailbox THEN "Mailbox"
    ELSE IF available_present_modes.immediate THEN "Immediate"
    ELSE "Fifo"

\* mutant: the desired resolution is clamped from above only
choose_swap_extent_no_floor(caps, desired_width, desired_height) ==
    IF caps.current_extent.some
    THEN caps.current_extent.val
    ELSE <<Min(caps.max_image_extent[1], desired_width),
           Min(caps.max_image_extent[2], desired_height)>>

choose_swap_extent(caps, desired_width, desired_height) ==
    IF caps.current_extent.some
    THEN caps.current_extent.val
    ELSE <<Max(caps.min_image_extent[1], Min(caps.max_image_extent[1], desired_width)),
           Max(caps.min_image_extent[2], Min(caps.max_image_extent[2], desired_height))>>

\* mutant: the maximum image count is ignored
requested_image_count_uncapped(caps) == caps.min_image_count + 1

\* image_count of create_swap_chain, first creation (u32; the counts modelled stay
\* far below the width of the type)
requested_image_count(caps) ==
    LET image_count == caps.min_image_count + 1
    IN  IF caps.max_image_count.some /\ image_count > caps.max_image_count.val
        THEN caps.max_image_count.val
        ELSE image_count

\* Swapchain::recreate(): a builder that carries the parameters of the existing
\* swapchain; no capability is queried and none of the choose_* rules is applied.
recreate_builder(old) ==
    [num_images |-> old.num_images,
     dimensions |-> old.dimensions,
     present_mode |-> old.present_mode,
     format |-> old.format,
     color_space |-> old.color_space]

\* Swapchain::start(..) with the parameters chosen from the capabilities.
\* None when choose_swap_surface_format panics.
start_builder(caps) ==
    LET fmt == choose_swap_surface_format(caps.supported_formats)
    IN  IF ~fmt.some THEN None
        ELSE Some([num_images |-> requested_image_count(caps),
                   dimensions |-> choose_swap_extent(caps, DesiredWidth, DesiredHeight),
                   present_mode |-> choose_swap_present_mode(caps.present_modes),
                   format |-> fmt.val[1],
                   color_space |-> fmt.val[2]])

\* The outcomes the library and driver can give to builder.build(): an error, or a
\* swapchain with at least the requested number of images.
BuildOutcomes(num_images) ==
    {[ok |-> FALSE, count |-> 0]}
        \cup {[ok |-> TRUE, count |-> n] : n \in num_images .. MaxImages}

\* create_swap_chain: [ok, line, swap_chain, images].  id names the new swapchain.
create_swap_chain(caps, old_swap_chain, id, built) ==
    LET builder == IF old_swap_chain.some
                   THEN Some(recreate_builder(old_swap_chain.val))
                   ELSE start_builder(caps)
        failed(line) == [ok |-> FALSE, line |-> line, swap_chain |-> None, images |-> <<>>]
    IN  IF ~builder.some THEN failed(12)
        ELSE IF ~built.ok THEN failed(103)
        ELSE [ok |-> TRUE, line |-> 0,
              swap_chain |-> [id |-> id,
                              num_images |-> built.count,
                              dimensions |-> builder.val.dimensions,
                              present_mode |-> builder.val.present_mode,
                              format |-> builder.val.format,
                              color_space |-> builder.val.color_space],
              images |-> [k \in 1 .. built.count |-> [swap_chain |-> id, index |-> k - 1]]]

(***************************************************************************)
(* main.rs: the resources built from a swapchain.                          *)
(***************************************************************************)
create_render_pass(color_format) == [format |-> color_format]

create_graphics_pipeline(swap_chain_extent, rp) ==
    [viewport |-> swap_chain_extent, render_pass |-> rp]

\* mutant: the last image gets no framebuffer
create_framebuffers_short(images, rp) ==
    [k \in 1 .. Len(images) - 1 |-> [image |-> images[k], render_pass |-> rp]]

create_framebuffers(images, rp) ==
    [k \in 1 .. Len(images) |-> [image |-> images[k], render_pass |-> rp]]

\* The closure of GraphicsApplication::new that records one command buffer per
\* framebuffer, each with CommandBufferUsage::OneTimeSubmit.
record_command_buffers(fbs, pipeline) ==
    [k \in 1 .. Len(fbs) |-> [framebuffer |-> fbs[k],
                              pipeline |-> pipeline,
                              usage |-> "OneTimeSubmit",
                              already_submitted |-> FALSE]]

\* fn create_command_buffers(&mut self) {}
create_command_buffers(self) == self

\* sync::now(device): a future that is already signalled.  made is the frame in
\* which it was created, covers the submissions whose completion it stands for.
create_sync_objects(no) == [kind |-> "now", made |-> no, covers |-> {}]

NoFrame ==
    [no |-> 0, steps |-> <<>>, flag_before |-> FALSE, handle_before |-> None,
     recreated |-> FALSE, swap_chain_id |-> 0, acquire |-> "none", image_index |-> -1,
     executed |-> FALSE, submitted |-> FALSE, chain |-> {}, prior |-> 0,
     framebuffer |-> None, presented |-> -1, flush |-> "none", logged |-> FALSE,
     returned |-> FALSE, created_with |-> None, build |-> "none",
     flag_after_recreate |-> FALSE, command_buffer_index |-> -1, presented_on |-> 0]

\* what a call of create_swap_chain was given and what build() answered
create_called(self, caps, built) ==
    [self EXCEPT !.frame.created_with = Some(caps),
                 !.frame.build = IF built.ok THEN "Ok" ELSE "Error"]

panic(self, line) == [self EXCEPT !.status = "panicked", !.panic_at = line]

Unbuilt ==
    [status |-> "start", panic_at |-> 0, swap_chain |-> None, swap_chain_images |-> <<>>,
     render_pass |-> None, graphics_pipeline |-> None, framebuffers |-> <<>>,
     command_buffers |-> <<>>, previous_frame_end |-> None, recreate_swap_chain |-> FALSE,
     event_loop |-> None, built_from |-> None,
     last_submission |-> [i \in 0 .. MaxImages - 1 |-> 0], frame |-> NoFrame]

\* GraphicsApplication::new
new(caps, built) ==
    LET created == create_swap_chain(caps, None, 1, built)
        rp == create_render_pass(created.swap_chain.format)
        pipeline == create_graphics_pipeline(created.swap_chain.dimensions, rp)
        fbs == create_framebuffers(created.images, rp)
        called == create_called(Unbuilt, caps, built)
    IN  IF ~created.ok THEN panic(called, created.line)
        ELSE [called EXCEPT
                 !.status = "running",
                 !.swap_chain = created.swap_chain,
                 !.swap_chain_images = created.images,
                 !.render_pass = rp,
                 !.graphics_pipeline = pipeline,
                 !.framebuffers = fbs,
                 !.command_buffers = record_command_buffers(fbs, pipeline),
                 !.previous_frame_end = Some(create_sync_objects(0)),
                 !.recreate_swap_chain = FALSE,
                 !.event_loop = Some("EventLoop"),
                 !.built_from = Some(caps)]

\* GraphicsApplication::recreate_swap_chain, the body of the if (lines 179-197)
rebuild_swap_chain(self, caps, built) ==
    LET created == create_swap_chain(caps, Some(self.swap_chain),
                                     self.swap_chain.id + 1, built)
        rp == create_render_pass(created.swap_chain.format)
        pipeline == create_graphics_pipeline(created.swap_chain.dimensions, rp)
        fbs == create_framebuffers(created.images, rp)
        called == create_called(self, caps, built)
    IN  IF ~created.ok THEN panic(called, created.line)
        ELSE LET s1 == [called EXCEPT
                           !.swap_chain = created.swap_chain,
                           !.swap_chain_images = created.images,
                           !.render_pass = rp,
                           !.graphics_pipeline = pipeline,
                           !.framebuffers = fbs,
                           !.built_from = Some(caps),
                           !.frame.recreated = TRUE,
                           !.frame.steps = Append(@, "recreate")]
                 s2 == create_command_buffers(s1)
             IN  [s2 EXCEPT !.recreate_swap_chain = FALSE]

\* mutant: the swapchain is rebuilt whether or not the flag is set
recreate_swap_chain_always(self, caps, built) == rebuild_swap_chain(self, caps, built)

\* GraphicsApplication::recreate_swap_chain
recreate_swap_chain(self, caps, built) ==
    IF self.recreate_swap_chain
    THEN rebuild_swap_chain(self, caps, built)
    ELSE self

(***************************************************************************)
(* main.rs: draw_frame.  The results of the library calls are parameters:  *)
(*   built     outcome of builder.build() should the swapchain be recreated *)
(*   acquired  [kind |-> "Ok" | "OutOfDate" | "Error", index |-> i]         *)
(*   exec      "Ok" | "Error", what then_execute reports for a command      *)
(*             buffer that may still be submitted                           *)
(*   flushed   "Ok" | "OutOfDate" | "Error" of then_signal_fence_and_flush  *)
(***************************************************************************)

\* then_execute: a OneTimeSubmit command buffer that was submitted before is
\* refused, whatever else the library finds.
then_execute(command_buffer, exec) ==
    IF command_buffer.usage = "OneTimeSubmit" /\ command_buffer.already_submitted
    THEN "Error"
    ELSE exec

\* mutant: on out of date the failed future is kept as previous_frame_end
store_frame_end_keeps_failed(self, chain, flushed, no) ==
    IF flushed = "Ok" \/ flushed = "OutOfDate"
    THEN [self EXCEPT
             !.recreate_swap_chain = IF flushed = "OutOfDate" THEN TRUE ELSE @,
             !.previous_frame_end = Some([kind |-> "fence", made |-> no,
                                          covers |-> chain \cup {no}])]
    ELSE [self EXCEPT
             !.frame.logged = TRUE,
             !.previous_frame_end = Some(create_sync_objects(no))]

\* mutant: a flush error other than out of date stores no replacement handle
store_frame_end_drops_handle(self, chain, flushed, no) ==
    IF flushed = "Ok"
    THEN [self EXCEPT
             !.previous_frame_end = Some([kind |-> "fence", made |-> no,
                                          covers |-> chain \cup {no}])]
    ELSE IF flushed = "OutOfDate"
    THEN [self EXCEPT
             !.recreate_swap_chain = TRUE,
             !.previous_frame_end = Some(create_sync_objects(no))]
    ELSE [self EXCEPT !.frame.logged = TRUE]

\* mutant: every flush error asks for a recreation
store_frame_end_flags_any_error(self, chain, flushed, no) ==
    IF flushed = "Ok"
    THEN [self EXCEPT
             !.previous_frame_end = Some([kind |-> "fence", made |-> no,
                                          covers |-> chain \cup {no}])]
    ELSE [self EXCEPT
             !.recreate_swap_chain = TRUE,
             !.frame.logged = (flushed /= "OutOfDate"),
             !.previous_frame_end = Some(create_sync_objects(no))]

\* lines 231-243: the match on the result of then_signal_fence_and_flush
store_frame_end(self, chain, flushed, no) ==
    IF flushed = "Ok"
    THEN [self EXCEPT
             !.previous_frame_end = Some([kind |-> "fence", made |-> no,
                                          covers |-> chain \cup {no}])]
    ELSE IF flushed = "OutOfDate"
    THEN [self EXCEPT
             !.recreate_swap_chain = TRUE,
             !.previous_frame_end = Some(create_sync_objects(no))]
    ELSE [self EXCEPT
             !.frame.logged = TRUE,
             !.previous_frame_end = Some(create_sync_objects(no))]

\* mutant: the present request names the first image, whatever was acquired
then_swapchain_present_first(self, image_index) ==
    [self EXCEPT !.frame.presented = 0,
                 !.frame.presented_on = self.swap_chain.id,
                 !.frame.steps = Append(@, "present")]

\* line 227: then_swapchain_present(presentation_queue, swap_chain, image_index)
then_swapchain_present(self, image_index) ==
    [self EXCEPT !.frame.presented = image_index,
                 !.frame.presented_on = self.swap_chain.id,
                 !.frame.steps = Append(@, "present")]

\* lines 221-228: pick the command buffer, take the handle, build the chain
submit_and_present(self, image_index, exec, flushed, no) ==
    IF image_index >= Len(self.command_buffers) THEN panic(self, 221)
    ELSE
    LET command_buffer == self.command_buffers[image_index + 1]
        chain == self.previous_frame_end.val.covers
        taken == [self EXCEPT
                     !.previous_frame_end = None,
                     !.frame.executed = TRUE,
                     !.frame.chain = chain,
                     !.frame.prior = self.last_submission[image_index],
                     !.frame.framebuffer = Some(command_buffer.framebuffer),
                     !.frame.command_buffer_index = image_index,
                     !.frame.steps = Append(@, "submit")]
    IN  IF then_execute(command_buffer, exec) /= "Ok" THEN panic(taken, 226)
        ELSE
        LET s0 == [taken EXCEPT
                      !.command_buffers[image_index + 1].already_submitted = TRUE,
                      !.last_submission[image_index] = no,
                      !.frame.submitted = TRUE]
            s1 == [then_swapchain_present(s0, image_index) EXCEPT
                      !.frame.flush = flushed,
                      !.frame.steps = Append(@, "flush")]
            s2 == store_frame_end(s1, chain, flushed, no)
        IN  [s2 EXCEPT !.frame.returned = TRUE]

\* mutant: out of date at acquire returns without setting the recreate flag
acquire_and_submit_forgets_flag(self, acquired, exec, flushed, no) ==
    LET s1 == [self EXCEPT
                  !.frame.swap_chain_id = self.swap_chain.id,
                  !.frame.acquire = acquired.kind,
                  !.frame.steps = Append(@, "acquire")]
    IN  IF acquired.kind = "OutOfDate"
        THEN [s1 EXCEPT !.frame.returned = TRUE]
        ELSE IF acquired.kind = "Error" THEN panic(s1, 218)
        ELSE submit_and_present([s1 EXCEPT !.frame.image_index = acquired.index],
                                acquired.index, exec, flushed, no)

\* lines 210-220: the match on the result of acquire_next_image
acquire_and_submit(self, acquired, exec, flushed, no) ==
    LET s1 == [self EXCEPT
                  !.frame.swap_chain_id = self.swap_chain.id,
                  !.frame.acquire = acquired.kind,
                  !.frame.steps = Append(@, "acquire")]
    IN  IF acquired.kind = "OutOfDate"
        THEN [s1 EXCEPT !.recreate_swap_chain = TRUE, !.frame.returned = TRUE]
        ELSE IF acquired.kind = "Error" THEN panic(s1, 218)
        ELSE submit_and_present([s1 EXCEPT !.frame.image_index = acquired.index],
                                acquired.index, exec, flushed, no)

draw_frame(self, caps, built, acquired, exec, flushed, no) ==
    LET s0 == [self EXCEPT
                  !.frame = [NoFrame EXCEPT
                                !.no = no,
                                !.flag_before = self.recreate_swap_chain,
                                !.handle_before = self.previous_frame_end]]
    IN  IF ~s0.previous_frame_end.some THEN panic(s0, 206)
        ELSE
        LET s1 == [s0 EXCEPT !.frame.steps = Append(@, "cleanup")]
            s2 == recreate_swap_chain(s1, caps, built)
            s3 == [s2 EXCEPT !.frame.flag_after_recreate = s2.recreate_swap_chain]
        IN  IF s2.status = "panicked" THEN s2
            ELSE acquire_and_submit(s3, acquired, exec, flushed, no)

(***************************************************************************)
(* The surface.                                                            *)
(***************************************************************************)
SurfaceExtents == {<<800, 600>>, <<1280, 720>>}

SurfaceSizes ==
    {[current |-> None, min |-> <<640, 480>>, max |-> <<1920, 1080>>],
     [current |-> None, min |-> <<1, 1>>, max |-> <<800, 600>>],
     [current |-> Some(<<800, 600>>), min |-> <<640, 480>>, max |-> <<1920, 1080>>]}

ImageCounts ==
    {[min |-> 1, max |-> None], [min |-> 2, max |-> Some(2)], [min |-> 2, max |-> None]}

SurfaceFormats ==
    {[formats |-> <<>>,
      modes |-> [mailbox |-> FALSE, immediate |-> FALSE, fifo |-> TRUE]],
     [formats |-> <<OtherFormat, PreferredFormat>>,
      modes |-> [mailbox |-> TRUE, immediate |-> TRUE, fifo |-> TRUE]],
     [formats |-> <<WrongSpaceFormat, OtherFormat>>,
      modes |-> [mailbox |-> FALSE, immediate |-> TRUE, fifo |-> TRUE]]}

InitialCapabilities ==
    {[current_extent |-> sz.current, min_image_extent |-> sz.min,
      max_image_extent |-> sz.max,
      min_image_count |-> ic.min, max_image_count |-> ic.max,
      supported_formats |-> sf.formats, present_modes |-> sf.modes] :
        sz \in SurfaceSizes, ic \in ImageCounts, sf \in SurfaceFormats}

(***************************************************************************)
(* The object as a record, and back into the variables.                    *)
(***************************************************************************)
Self ==
    [status |-> status, panic_at |-> panic_at, swap_chain |-> swap_chain,
     swap_chain_images |-> swap_chain_images, render_pass |-> render_pass,
     graphics_pipeline |-> graphics_pipeline, framebuffers |-> framebuffers,
     command_buffers |-> command_buffers, previous_frame_end |-> previous_frame_end,
     recreate_swap_chain |-> recreate_flag, event_loop |-> event_loop,
     built_from |-> built_from, last_submission |-> last_submission, frame |-> frame]

Becomes(self) ==
    /\ status' = self.status
    /\ panic_at' = self.panic_at
    /\ swap_chain' = self.swap_chain
    /\ swap_chain_images' = self.swap_chain_images
    /\ render_pass' = self.render_pass
    /\ graphics_pipeline' = self.graphics_pipeline
    /\ framebuffers' = self.framebuffers
    /\ command_buffers' = self.command_buffers
    /\ previous_frame_end' = self.previous_frame_end
    /\ recreate_flag' = self.recreate_swap_chain
    /\ event_loop' = self.event_loop
    /\ built_from' = self.built_from
    /\ last_submission' = self.last_submission
    /\ frame' = self.frame

\* every variable but the surface and the results of the rules checked alone
object_vars ==
    <<status, panic_at, swap_chain, swap_chain_images, render_pass, graphics_pipeline,
      framebuffers, command_buffers, previous_frame_end, recreate_flag, event_loop, pc,
      frame_no, frame, built_from, last_submission, last_event, desired, extent_result>>

AcquireOutcomes(image_count) ==
    {[kind |-> "OutOfDate", index |-> -1], [kind |-> "Error", index |-> -1]}
        \cup {[kind |-> "Ok", index |-> i] : i \in 0 .. image_count - 1}

ExecOutcomes == {"Ok", "Error"}
FlushOutcomes == {"Ok", "OutOfDate", "Error"}

Init ==
    /\ capabilities \in InitialCapabilities
    /\ status = Unbuilt.status
    /\ panic_at = Unbuilt.panic_at
    /\ swap_chain = Unbuilt.swap_chain
    /\ swap_chain_images = Unbuilt.swap_chain_images
    /\ render_pass = Unbuilt.render_pass
    /\ graphics_pipeline = Unbuilt.graphics_pipeline
    /\ framebuffers = Unbuilt.framebuffers
    /\ command_buffers = Unbuilt.command_buffers
    /\ previous_frame_end = Unbuilt.previous_frame_end
    /\ recreate_flag = Unbuilt.recreate_swap_chain
    /\ event_loop = Unbuilt.event_loop
    /\ built_from = Unbuilt.built_from
    /\ last_submission = Unbuilt.last_submission
    /\ frame = Unbuilt.frame
    /\ pc = "draw"
    /\ frame_no = 0
    /\ last_event = [kind |-> "none", window_id |-> 0]
    /\ desired = <<DesiredWidth, DesiredHeight>>
    /\ extent_result = None
    /\ chosen = NothingChosen
    /\ queue_families = <<>>
    /\ queues = None

(***************************************************************************)
(* The actions of the object.                                              *)
(***************************************************************************)
\* GraphicsApplication::new() of main
New ==
    /\ status = "start"
    /\ \E built \in BuildOutcomes(requested_image_count(capabilities)) :
           Becomes(new(capabilities, built))
    /\ UNCHANGED <<capabilities, pc, frame_no, last_event, desired, extent_result,
                   chosen, queue_families, queues>>

\* one call of draw_frame; the result of each library call is chosen here
DrawFrameCall ==
    /\ status = "running"
    /\ frame_no < MaxFrames
    /\ \E built \in (IF recreate_flag THEN BuildOutcomes(swap_chain.num_images)
                     ELSE {[ok |-> TRUE, count |-> swap_chain.num_images]}) :
       \E acquired \in AcquireOutcomes(IF recreate_flag /\ built.ok THEN built.count
                                       ELSE Len(swap_chain_images)) :
       \E exec \in ExecOutcomes, flushed \in FlushOutcomes :
           Becomes(draw_frame(Self, capabilities, built, acquired, exec, flushed,
                              frame_no + 1))
    /\ frame_no' = frame_no + 1
    /\ UNCHANGED <<capabilities, last_event, desired, extent_result,
                   chosen, queue_families, queues>>

DrawFrame == DrawFrameCall /\ UNCHANGED pc

\* the window is resized: the surface reports another current extent
Resize ==
    /\ status = "running"
    /\ capabilities.current_extent.some
    /\ \E e \in SurfaceExtents \ {capabilities.current_extent.val} :
           capabilities' = [capabilities EXCEPT !.current_extent = Some(e)]
    /\ UNCHANGED <<status, panic_at, swap_chain, swap_chain_images, render_pass,
                   graphics_pipeline, framebuffers, command_buffers, previous_frame_end,
                   recreate_flag, event_loop, pc, frame_no, frame, built_from,
                   last_submission, last_event, desired, extent_result,
                   chosen, queue_families, queues>>

Next == New \/ DrawFrame \/ Resize

Spec == Init /\ [][Next]_vars

(***************************************************************************)
(* The same object on a surface that may stop reporting any format.        *)
(***************************************************************************)
LoseFormats ==
    /\ status = "running"
    /\ capabilities.supported_formats /= <<>>
    /\ capabilities' = [capabilities EXCEPT !.supported_formats = <<>>]
    /\ UNCHANGED <<object_vars, chosen, queue_families, queues>>

SurfaceNext == New \/ DrawFrame \/ Resize \/ LoseFormats

SurfaceSpec == Init /\ [][SurfaceNext]_vars

(***************************************************************************)
(* main_loop as coded:                                                     *)
(*     loop { self.draw_frame();                                           *)
(*            self.event_loop.take().unwrap().run(closure); }              *)
(* EventLoop::run takes the event loop by value and has return type `!`:   *)
(* it dispatches events to the closure until the closure asks for          *)
(* ControlFlow::Exit, and then ends the process.  Control never comes back *)
(* to the loop body.                                                       *)
(***************************************************************************)
OurWindowId == 1
OtherWindowId == 2

Events ==
    {[kind |-> "CloseRequested", window_id |-> w] : w \in {OurWindowId, OtherWindowId}}
        \cup {[kind |-> "RedrawRequested", window_id |-> OurWindowId]}

\* the closure given to run: the ControlFlow it leaves behind
event_closure(event, our_window_id) ==
    IF event.kind = "CloseRequested" /\ event.window_id = our_window_id
    THEN "Exit"
    ELSE "Wait"

LoopDrawFrame ==
    /\ pc = "draw"
    /\ DrawFrameCall
    /\ pc' = "events"

\* self.event_loop.take().unwrap().run(..): entering the event loop
LoopRun ==
    /\ pc = "events"
    /\ status = "running"
    /\ IF event_loop.some
       THEN /\ event_loop' = None
            /\ pc' = "in_run"
            /\ UNCHANGED <<status, panic_at>>
       ELSE /\ status' = "panicked"
            /\ panic_at' = 149
            /\ UNCHANGED <<event_loop, pc>>
    /\ UNCHANGED <<capabilities, swap_chain, swap_chain_images, render_pass,
                   graphics_pipeline, framebuffers, command_buffers, previous_frame_end,
                   recreate_flag, frame_no, frame, built_from, last_submission,
                   last_event, desired, extent_result, chosen, queue_families, queues>>

\* one event dispatched to the closure inside run
HandleEvent ==
    /\ pc = "in_run"
    /\ status = "running"
    /\ \E event \in Events :
           /\ last_event' = event
           /\ status' = IF event_closure(event, OurWindowId) = "Exit"
                        THEN "exited" ELSE status
    /\ UNCHANGED <<panic_at, capabilities, swap_chain, swap_chain_images, render_pass,
                   graphics_pipeline, framebuffers, command_buffers, previous_frame_end,
                   recreate_flag, event_loop, pc, frame_no, frame, built_from,
                   last_submission, desired, extent_result, chosen, queue_families, queues>>

LoopNext == New \/ LoopDrawFrame \/ LoopRun \/ HandleEvent \/ Resize

\* The program's own steps are taken when they can be; no event is ever owed by
\* the window system.
LoopSpec ==
    /\ Init
    /\ [][LoopNext]_vars
    /\ WF_vars(New)
    /\ WF_vars(LoopDrawFrame)
    /\ WF_vars(LoopRun)

(***************************************************************************)
(* choose_swap_extent on bounded capabilities and desired resolutions.     *)
(***************************************************************************)
Widths == {640, 1024, 1920}
Heights == {480, 768, 1080}
DesiredWidths == {1, 640, 1024, 1920, 4000}
DesiredHeights == {1, 480, 768, 1080, 4000}

ExtentCapabilities ==
    {[current_extent |-> ce, min_image_extent |-> <<w1, h1>>,
      max_image_extent |-> <<w2, h2>>,
      min_image_count |-> 1, max_image_count |-> None,
      supported_formats |-> <<PreferredFormat>>,
      present_modes |-> [mailbox |-> FALSE, immediate |-> FALSE, fifo |-> TRUE]] :
        ce \in {None, Some(<<800, 600>>), Some(<<3000, 2000>>)},
        w1 \in Widths, h1 \in Heights,
        w2 \in Widths, h2 \in Heights}

ExtentInit ==
    /\ capabilities \in {c \in ExtentCapabilities :
                            /\ c.min_image_extent[1] <= c.max_image_extent[1]
                            /\ c.min_image_extent[2] <= c.max_image_extent[2]}
    /\ desired \in DesiredWidths \X DesiredHeights
    /\ extent_result = None
    /\ chosen = NothingChosen
    /\ queue_families = <<>>
    /\ queues = None
    /\ status = Unbuilt.status
    /\ panic_at = Unbuilt.panic_at
    /\ swap_chain = Unbuilt.swap_chain
    /\ swap_chain_images = Unbuilt.swap_chain_images
    /\ render_pass = Unbuilt.render_pass
    /\ graphics_pipeline = Unbuilt.graphics_pipeline
    /\ framebuffers = Unbuilt.framebuffers
    /\ command_buffers = Unbuilt.command_buffers
    /\ previous_frame_end = Unbuilt.previous_frame_end
    /\ recreate_flag = Unbuilt.recreate_swap_chain
    /\ event_loop = Unbuilt.event_loop
    /\ built_from = Unbuilt.built_from
    /\ last_submission = Unbuilt.last_submission
    /\ frame = Unbuilt.frame
    /\ pc = "draw"
    /\ frame_no = 0
    /\ last_event = [kind |-> "none", window_id |-> 0]

ChooseExtent ==
    /\ ~extent_result.some
    /\ extent_result' = Some(choose_swap_extent(capabilities, desired[1], desired[2]))
    /\ UNCHANGED <<status, panic_at, capabilities, swap_chain, swap_chain_images,
                   render_pass, graphics_pipeline, framebuffers, command_buffers,
                   previous_frame_end, recreate_flag, event_loop, pc, frame_no, frame,
                   built_from, last_submission, last_event, desired, chosen,
                   queue_families, queues>>

ExtentNext == ChooseExtent

ExtentSpec == ExtentInit /\ [][ExtentNext]_vars

(***************************************************************************)
(* The other choose_* rules of create_swap_chain on bounded capabilities.  *)
(***************************************************************************)
MaxFormats == 3
MaxMinImageCount == 3

RECURSIVE SeqsUpTo(_, _)
SeqsUpTo(S, n) ==
    IF n = 0 THEN {<<>>}
    ELSE LET shorter == SeqsUpTo(S, n - 1)
         IN  shorter \cup {Append(q, x) : q \in shorter, x \in S}

ChooseCapabilities ==
    {[current_extent |-> None, min_image_extent |-> <<640, 480>>,
      max_image_extent |-> <<1920, 1080>>,
      min_image_count |-> lo, max_image_count |-> hi,
      supported_formats |-> fl,
      present_modes |-> [mailbox |-> mb, immediate |-> im, fifo |-> ff]] :
        lo \in 1 .. MaxMinImageCount,
        hi \in {None} \cup {Some(m) : m \in 1 .. MaxMinImageCount + 1},
        fl \in SeqsUpTo({PreferredFormat, OtherFormat, WrongSpaceFormat}, MaxFormats),
        mb \in BOOLEAN, im \in BOOLEAN, ff \in BOOLEAN}

\* the object is not built and nothing has been computed
Idle ==
    /\ status = Unbuilt.status
    /\ panic_at = Unbuilt.panic_at
    /\ swap_chain = Unbuilt.swap_chain
    /\ swap_chain_images = Unbuilt.swap_chain_images
    /\ render_pass = Unbuilt.render_pass
    /\ graphics_pipeline = Unbuilt.graphics_pipeline
    /\ framebuffers = Unbuilt.framebuffers
    /\ command_buffers = Unbuilt.command_buffers
    /\ previous_frame_end = Unbuilt.previous_frame_end
    /\ recreate_flag = Unbuilt.recreate_swap_chain
    /\ event_loop = Unbuilt.event_loop
    /\ built_from = Unbuilt.built_from
    /\ last_submission = Unbuilt.last_submission
    /\ frame = Unbuilt.frame
    /\ pc = "draw"
    /\ frame_no = 0
    /\ last_event = [kind |-> "none", window_id |-> 0]
    /\ desired = <<DesiredWidth, DesiredHeight>>
    /\ extent_result = None

\* the surface keeps the guarantee min_image_count <= max_image_count
ChooseInit ==
    /\ capabilities \in {c \in ChooseCapabilities :
                            c.max_image_count.some
                                => c.min_image_count <= c.max_image_count.val}
    /\ chosen = NothingChosen
    /\ queue_families = <<>>
    /\ queues = None
    /\ Idle

ChooseFormat ==
    /\ ~chosen.format.some
    /\ chosen' = [chosen EXCEPT
                     !.format = Some(choose_swap_surface_format(
                                         capabilities.supported_formats))]
    /\ UNCHANGED <<object_vars, capabilities, queue_families, queues>>

ChoosePresentMode ==
    /\ ~chosen.present_mode.some
    /\ chosen' = [chosen EXCEPT
                     !.present_mode = Some(choose_swap_present_mode(
                                               capabilities.present_modes))]
    /\ UNCHANGED <<object_vars, capabilities, queue_families, queues>>

ChooseImageCount ==
    /\ ~chosen.image_count.some
    /\ chosen' = [chosen EXCEPT
                     !.image_count = Some(requested_image_count(capabilities))]
    /\ UNCHANGED <<object_vars, capabilities, queue_families, queues>>

ChooseNext == ChooseFormat \/ ChoosePresentMode \/ ChooseImageCount

ChooseSpec == ChooseInit /\ [][ChooseNext]_vars

(***************************************************************************)
(* device.rs.  A physical device is the sequence of its queue families; a  *)
(* family is [graphics, present]: whether it supports graphics and whether *)
(* the surface is supported by it.  The id of a family is its position in  *)
(* the sequence, counted from 0.                                           *)
(***************************************************************************)
MaxFamilies == 3

\* QueueCollection::all_present
all_present(collection) ==
    collection.graphics_queue_id.some /\ collection.presentation_queue_id.some

\* the loop of find_queue_families, from the family at position i on
RECURSIVE find_queue_families_from(_, _, _)
find_queue_families_from(families, i, collection) ==
    IF i > Len(families) THEN collection
    ELSE find_queue_families_from(families, i + 1,
             [graphics_queue_id |->
                  IF families[i].graphics THEN Some(i - 1)
                  ELSE collection.graphics_queue_id,
              presentation_queue_id |->
                  IF families[i].present THEN Some(i - 1)
                  ELSE collection.presentation_queue_id])

find_queue_families(families) ==
    find_queue_families_from(families, 1,
        [graphics_queue_id |-> None, presentation_queue_id |-> None])

\* pick_physical_device: the position of the first device that has both
\* families, None for the failed expect
RECURSIVE find_suitable(_, _)
find_suitable(devices, d) ==
    IF d > Len(devices) THEN None
    ELSE IF all_present(find_queue_families(devices[d])) THEN Some(d)
    ELSE find_suitable(devices, d + 1)

pick_physical_device(devices) == find_suitable(devices, 1)

\* lines 44-52: the ids of the families asked for, in the order of enumeration
RECURSIVE requested_families(_, _, _)
requested_families(families, i, collection) ==
    IF i > Len(families) THEN <<>>
    ELSE (IF \/ i - 1 = collection.graphics_queue_id.val
             \/ i - 1 = collection.presentation_queue_id.val
          THEN <<i - 1>> ELSE <<>>)
         \o requested_families(families, i + 1, collection)

NoQueues == [ok |-> FALSE, line |-> 0, device |-> 0,
             graphics_queue |-> [family |-> -1],
             presentation_queue |-> [family |-> -1]]

\* create_device; device_new is the result of Device::new, which hands out one
\* queue per family asked for, in the order they were asked for
create_device(devices, device_new) ==
    LET picked == pick_physical_device(devices)
    IN  IF ~picked.some THEN [NoQueues EXCEPT !.line = 74]
        ELSE
        LET families == devices[picked.val]
            queue_collection == find_queue_families(families)
        IN  IF ~all_present(queue_collection)
            THEN [NoQueues EXCEPT !.line = 40, !.device = picked.val]
            ELSE IF device_new /= "Ok"
            THEN [NoQueues EXCEPT !.line = 60, !.device = picked.val]
            ELSE
            LET made == requested_families(families, 1, queue_collection)
                graphics_queue == [family |-> made[1]]
                presentation_queue == IF Len(made) >= 2
                                      THEN [family |-> made[2]]
                                      ELSE graphics_queue
            IN  [ok |-> TRUE, line |-> 0, device |-> picked.val,
                 graphics_queue |-> graphics_queue,
                 presentation_queue |-> presentation_queue]

QueueFamilies == [graphics : BOOLEAN, present : BOOLEAN]

PhysicalDevices == SeqsUpTo(QueueFamilies, MaxFamilies) \ {<<>>}

\* a device that cannot present to the surface
ComputeOnlyDevice == <<[graphics |-> TRUE, present |-> FALSE]>>

\* the instance enumerates one device, or an unsuitable one before it
DeviceInit ==
    /\ queue_families \in {<<device>> : device \in PhysicalDevices}
                              \cup {<<ComputeOnlyDevice, device>> :
                                        device \in PhysicalDevices}
    /\ queues = None
    /\ chosen = NothingChosen
    /\ capabilities = CHOOSE c \in InitialCapabilities : TRUE
    /\ Idle

CreateDevice ==
    /\ ~queues.some
    /\ \E device_new \in {"Ok", "Error"} :
           queues' = Some(create_device(queue_families, device_new))
    /\ UNCHANGED <<object_vars, capabilities, chosen, queue_families>>

DeviceNext == CreateDevice

DeviceSpec == DeviceInit /\ [][DeviceNext]_vars

(***************************************************************************)
(* Properties.                                                             *)
(***************************************************************************)
Built == status \in {"running", "panicked", "exited"} /\ built_from.some

\* C1: after a swapchain recreation the number of command buffers equals the image
\* count of the new swapchain, so that command_buffers[image_index] is in bounds
\* for every index acquire can return (no panic at line 221).
C1_CommandBuffersMatchNewSwapchain ==
    /\ frame.recreated => Len(command_buffers) = Len(swap_chain_images)
    /\ panic_at /= 221

\* C2: a command buffer submitted in a frame was recorded against a framebuffer of
\* the current swapchain's image set, also in the frames after a recreation.
C2_SubmittedAgainstCurrentFramebuffer ==
    frame.submitted =>
        \E k \in 1 .. Len(framebuffers) : framebuffers[k] = frame.framebuffer.val

\* C3: in every state between two calls (after construction and after any
\* recreation) there is one framebuffer per image of the current swapchain, the
\* k-th framebuffer viewing the k-th image.
C3_FramebufferPerImage ==
    /\ Len(framebuffers) = Len(swap_chain_images)
    /\ \A k \in 1 .. Len(framebuffers) : framebuffers[k].image = swap_chain_images[k]
    /\ Built => /\ Len(swap_chain_images) = swap_chain.num_images
                /\ \A k \in 1 .. Len(swap_chain_images) :
                       swap_chain_images[k].swap_chain = swap_chain.id

\* a recreation changed the image count and the framebuffers followed it
C3_Witness ==
    /\ status = "running"
    /\ frame.recreated
    /\ Len(swap_chain_images) = 3
    /\ Len(command_buffers) = 2
    /\ Len(framebuffers) = 3

\* C4: a frame whose acquire reports out of date submits nothing, presents
\* nothing, leaves previous_frame_end as it was at the start of the frame, returns
\* normally and leaves the recreate flag set.
C4_AcquireOutOfDateSkipsFrame ==
    frame.acquire = "OutOfDate" =>
        /\ ~frame.executed
        /\ ~frame.submitted
        /\ frame.presented = -1
        /\ frame.flush = "none"
        /\ previous_frame_end = frame.handle_before
        /\ recreate_flag
        /\ frame.returned
        /\ status = "running"

\* acquire reported out of date while the handle held the future of a real frame,
\* on a swapchain that had just been recreated
C4_Witness ==
    /\ frame.acquire = "OutOfDate"
    /\ frame.recreated
    /\ frame.handle_before.val.kind = "fence"
    /\ recreate_flag

\* C5: a frame whose submit/present/flush chain reports out of date after a
\* successful acquire returns with the recreate flag set and previous_frame_end
\* holding a fresh already-signalled placeholder: not empty, not the failed future,
\* not the handle of the frame before.
C5_FlushOutOfDateResetsHandle ==
    frame.flush = "OutOfDate" =>
        /\ frame.acquire = "Ok"
        /\ frame.returned
        /\ status = "running"
        /\ recreate_flag
        /\ previous_frame_end = Some(create_sync_objects(frame.no))
        /\ previous_frame_end.val.kind = "now"
        /\ previous_frame_end.val.covers = {}
        /\ previous_frame_end /= frame.handle_before

\* the chain failed with out of date in a frame that started from the future of
\* an earlier successful frame and with the flag clear
C5_Witness ==
    /\ frame.flush = "OutOfDate"
    /\ frame.handle_before.val.kind = "fence"
    /\ ~frame.flag_before
    /\ recreate_flag

\* C6: a failure other than out of date inside a frame (from acquire, from
\* then_execute or from the flush) is logged, the frame returns normally with
\* previous_frame_end reset to the placeholder, and the only panics are those of
\* the swapchain build (swapchain.rs lines 12 and 103).
C6_NoPanicFromABadFrame ==
    /\ status = "panicked" => panic_at \in {12, 103}
    /\ (frame.acquire = "Error" \/ (frame.executed /\ ~frame.submitted)
            \/ frame.flush = "Error") =>
           /\ frame.returned
           /\ frame.logged
           /\ previous_frame_end = Some(create_sync_objects(frame.no))

C8_LoopKeepsDrawing ==
    \A n \in 1 .. MaxFrames - 1 :
        [](status = "running" /\ frame_no = n
              => <>(frame_no = n + 1 \/ status = "exited"))

\* C9: the swapchain in use, first or recreated, has the extent, format, colour
\* space and present mode that the choose_* rules give for the capabilities the
\* surface reported when it was created.
C9_SwapchainFollowsCapabilities ==
    Built =>
        /\ swap_chain.dimensions
               = choose_swap_extent(built_from.val, DesiredWidth, DesiredHeight)
        /\ <<swap_chain.format, swap_chain.color_space>>
               = choose_swap_surface_format(built_from.val.supported_formats).val
        /\ swap_chain.present_mode
               = choose_swap_present_mode(built_from.val.present_modes)

InRange(x, lo, hi) == lo <= x /\ x <= hi

\* C10: choose_swap_extent returns the current extent when it is defined; otherwise
\* each component of the result lies between the minimum and the maximum extent
\* and equals the desired component when that lies in the range; for
\* min=[640,480], max=[1920,1080], desired (1024,768) the result is [1024,768].
C10_ChooseSwapExtent ==
    extent_result.some =>
        LET r == extent_result.val
            c == capabilities
        IN  /\ c.current_extent.some => r = c.current_extent.val
            /\ ~c.current_extent.some =>
                   \A i \in 1 .. 2 :
                       /\ InRange(r[i], c.min_image_extent[i], c.max_image_extent[i])
                       /\ InRange(desired[i], c.min_image_extent[i],
                                  c.max_image_extent[i]) => r[i] = desired[i]
            /\ (/\ ~c.current_extent.some
                /\ c.min_image_extent = <<640, 480>>
                /\ c.max_image_extent = <<1920, 1080>>
                /\ desired = <<1024, 768>>) => r = <<1024, 768>>

\* the scenario of the specification has been computed
C10_Witness ==
    /\ extent_result = Some(<<1024, 768>>)
    /\ ~capabilities.current_extent.some
    /\ capabilities.min_image_extent = <<640, 480>>
    /\ capabilities.max_image_extent = <<1920, 1080>>
    /\ desired = <<1024, 768>>


Contains(list, x) == \E i \in 1 .. Len(list) : list[i] = x

\* C11: for a non-empty list of supported (format, colour space) pairs,
\* choose_swap_surface_format returns (B8G8R8A8Unorm, SrgbNonLinear) when the list
\* contains it at any position, and the first pair of the list otherwise.
C11_ChooseSurfaceFormat ==
    (chosen.format.some /\ Len(capabilities.supported_formats) > 0) =>
        /\ chosen.format.val.some
        /\ chosen.format.val.val =
               IF Contains(capabilities.supported_formats, PreferredFormat)
               THEN PreferredFormat
               ELSE capabilities.supported_formats[1]

\* the preferred pair was found in the last place, behind a pair with the same
\* format in another colour space
C11_Witness ==
    /\ capabilities.supported_formats = <<WrongSpaceFormat, OtherFormat, PreferredFormat>>
    /\ chosen.format = Some(Some(PreferredFormat))

\* C12: for each of the eight combinations of the support flags,
\* choose_swap_present_mode returns Mailbox when mailbox is supported, else
\* Immediate when immediate is supported, else Fifo, whatever the fifo flag says.
C12_ChoosePresentMode ==
    chosen.present_mode.some =>
        LET m == capabilities.present_modes
            r == chosen.present_mode.val
        IN  /\ m.mailbox => r = "Mailbox"
            /\ (~m.mailbox /\ m.immediate) => r = "Immediate"
            /\ (~m.mailbox /\ ~m.immediate) => r = "Fifo"

\* Fifo was returned although no flag, fifo included, is set
C12_Witness ==
    /\ capabilities.present_modes = [mailbox |-> FALSE, immediate |-> FALSE, fifo |-> FALSE]
    /\ chosen.present_mode = Some("Fifo")

\* C20: on first creation the requested image count is min_image_count + 1, lowered
\* to max_image_count when a maximum is defined and exceeded; it is never below
\* min_image_count and never above a defined max_image_count.
C20_RequestedImageCount ==
    chosen.image_count.some =>
        LET c == capabilities
            r == chosen.image_count.val
        IN  /\ r = IF c.max_image_count.some /\ c.min_image_count + 1 > c.max_image_count.val
                   THEN c.max_image_count.val
                   ELSE c.min_image_count + 1
            /\ r >= c.min_image_count
            /\ c.max_image_count.some => r <= c.max_image_count.val

\* the count min_image_count + 1 was lowered to the maximum
C20_Witness ==
    /\ capabilities.min_image_count = 2
    /\ capabilities.max_image_count = Some(2)
    /\ chosen.image_count = Some(2)

\* C13: a call of create_swap_chain, on first creation or on recreation, that finds
\* the surface reporting no supported format, or whose build fails, ends in a
\* panic of swapchain.rs (line 12 or 103), after which nothing more is done.
C13_SwapchainCreationFatal ==
    (/\ frame.created_with.some
     /\ \/ frame.created_with.val.supported_formats = <<>>
        \/ frame.build = "Error") =>
        /\ status = "panicked"
        /\ panic_at \in {12, 103}
        /\ ~ENABLED SurfaceNext

\* position of a step in the record of a frame, 0 when it was not taken
RECURSIVE StepAt(_, _, _)
StepAt(steps, name, i) ==
    IF i > Len(steps) THEN 0
    ELSE IF steps[i] = name THEN i
    ELSE StepAt(steps, name, i + 1)

\* C14: a frame that begins with the recreate flag set and gets as far as its
\* acquire has rebuilt the swapchain and the resources that depend on it before
\* the acquire; the flag was false when the rebuild finished; the acquire, the
\* command buffer submitted and the present all belong to the new swapchain.
C14_RecreationBeforeAcquire ==
    (frame.flag_before /\ frame.acquire /= "none") =>
        /\ frame.recreated
        /\ StepAt(frame.steps, "recreate", 1) > 0
        /\ StepAt(frame.steps, "recreate", 1) < StepAt(frame.steps, "acquire", 1)
        /\ ~frame.flag_after_recreate
        /\ frame.swap_chain_id = swap_chain.id
        /\ \A k \in 1 .. Len(framebuffers) :
               framebuffers[k].image.swap_chain = swap_chain.id
        /\ frame.submitted =>
               /\ frame.framebuffer.val.image.swap_chain = swap_chain.id
               /\ frame.presented_on = swap_chain.id

\* the number of times a step was taken in a frame
RECURSIVE StepCount(_, _)
StepCount(steps, name) ==
    IF steps = <<>> THEN 0
    ELSE (IF Head(steps) = name THEN 1 ELSE 0) + StepCount(Tail(steps), name)

\* C15: a frame that starts with the recreate flag set rebuilds the swapchain
\* exactly once (or dies in the rebuild); a frame that starts with the flag
\* clear leaves the swapchain and what depends on it alone; no frame rebuilds
\* more than once.
C15_OneRecreationPerDetection ==
    [][frame_no' = frame_no + 1 =>
          /\ recreate_flag =>
                 \/ /\ frame'.recreated
                    /\ swap_chain'.id = swap_chain.id + 1
                    /\ StepCount(frame'.steps, "recreate") = 1
                 \/ /\ status' = "panicked"
                    /\ panic_at' = 103
                    /\ swap_chain' = swap_chain
          /\ ~recreate_flag =>
                 /\ ~frame'.recreated
                 /\ StepCount(frame'.steps, "recreate") = 0
                 /\ swap_chain' = swap_chain
                 /\ swap_chain_images' = swap_chain_images
                 /\ render_pass' = render_pass
                 /\ graphics_pipeline' = graphics_pipeline
                 /\ framebuffers' = framebuffers]_vars

\* two detections, in frames 1 and 2, have led to two recreations, in frames 2
\* and 3
C15_Witness ==
    /\ frame.no = 3
    /\ frame.flag_before
    /\ frame.recreated
    /\ swap_chain.id = 3

\* the order the claim gives to the steps of one frame
FrameOrder == <<"cleanup", "recreate", "acquire", "submit", "present", "flush">>

\* C16: the steps of a frame are taken in the order cleanup, recreation (if
\* any), acquire, submit, present, fence+flush, each at most once and none
\* without the ones before it (recreation aside); a command buffer is handed to
\* then_execute only after acquire returned Ok in this frame; the index
\* presented is the index acquired, and the command buffer submitted is the one
\* at that index.
C16_FrameStepOrder ==
    LET at(name) == StepAt(frame.steps, name, 1)
        done(name) == at(name) > 0
    IN  /\ \A i, j \in 1 .. Len(frame.steps) :
               i < j => StepAt(FrameOrder, frame.steps[i], 1)
                            < StepAt(FrameOrder, frame.steps[j], 1)
        /\ \A i \in 1 .. Len(frame.steps) : StepAt(FrameOrder, frame.steps[i], 1) > 0
        /\ done("recreate") => done("cleanup")
        /\ done("acquire") => done("cleanup")
        /\ done("submit") => done("acquire") /\ frame.acquire = "Ok"
        /\ done("present") => done("submit") /\ frame.submitted
        /\ done("flush") => done("present")
        /\ done("submit") => frame.command_buffer_index = frame.image_index
        /\ done("present") =>
               /\ frame.presented = frame.image_index
               /\ frame.presented = frame.command_buffer_index
               /\ frame.presented >= 0

\* a frame that took all six steps, for the image of index 1
C16_Witness ==
    /\ frame.steps = FrameOrder
    /\ frame.acquire = "Ok"
    /\ frame.image_index = 1
    /\ frame.presented = 1
    /\ frame.returned

\* C17: the handle of the previous frame is present whenever a frame may
\* start, was present at the start of every frame that ran, and is present when
\* a frame returns, after any sequence of results; the unwrap of line 206 never
\* finds it empty.
C17_HandleAlwaysPresent ==
    /\ status = "running" => previous_frame_end.some
    /\ frame.no > 0 => frame.handle_before.some
    /\ frame.returned => previous_frame_end.some
    /\ panic_at /= 206

\* the third frame starts from the handle stored after a failed flush of the
\* second, fails to flush with another error itself, and returns with a handle
C17_Witness ==
    /\ frame.no = 3
    /\ frame.handle_before = Some([kind |-> "now", made |-> 2, covers |-> {}])
    /\ frame.flush = "Error"
    /\ frame.returned
    /\ status = "running"
    /\ previous_frame_end = Some([kind |-> "now", made |-> 3, covers |-> {}])

\* C18: over a frame that returns, the recreate flag ends true exactly when
\* acquire or the flush of the chain reported out of date; a frame that flushed
\* without error, or with an error of another kind, leaves the flag as the
\* recreation step left it, and the former stores the future it produced as the
\* handle of the previous frame; nothing but a frame changes the flag, which
\* starts false.
C18_FlagOnlyOnOutOfDate ==
    [][/\ (frame_no' = frame_no + 1 /\ frame'.returned) =>
              /\ recreate_flag' = (\/ frame'.flag_after_recreate
                                   \/ frame'.acquire = "OutOfDate"
                                   \/ frame'.flush = "OutOfDate")
              /\ frame'.flush \in {"Ok", "Error"} =>
                     recreate_flag' = frame'.flag_after_recreate
              /\ frame'.flush = "Ok" =>
                     previous_frame_end' =
                         Some([kind |-> "fence", made |-> frame'.no,
                               covers |-> frame'.chain \cup {frame'.no}])
       /\ frame_no' = frame_no => recreate_flag' = recreate_flag
       /\ frame_no' = 0 => ~recreate_flag']_vars

\* a frame whose flush failed with an error other than out of date returned and
\* the flag is still clear
C18_Witness ==
    /\ frame.flush = "Error"
    /\ frame.logged
    /\ frame.returned
    /\ ~recreate_flag
    /\ status = "running"

\* C19: the graphics queue create_device returns belongs to a family that
\* supports graphics and the presentation queue to a family the surface is
\* supported by, whatever the order of the families of the device.
C19_QueuesMatchFamilies ==
    (queues.some /\ queues.val.ok) =>
        LET families == queue_families[queues.val.device]
        IN  /\ families[queues.val.graphics_queue.family + 1].graphics
            /\ families[queues.val.presentation_queue.family + 1].present

====
